---- MODULE Spec2Model ----
(***************************************************************************)
(* Model of watermark_tool.py: a batch tool that draws the capture date of *)
(* every image of a directory (or of one file) onto a copy of the image.   *)
(*                                                                         *)
(* Strings (paths, file names, EXIF values, watermark texts) are sequences *)
(* of one-character strings, so that os.path, fnmatch, strptime and        *)
(* strftime are computed character by character as the libraries do.       *)
(* os.path is posixpath and fnmatch is case-sensitive (os.path.normcase is *)
(* the identity), as on Linux and macOS.                                   *)
(***************************************************************************)
EXTENDS Integers, Sequences, FiniteSets, TLC

VARIABLES
    pc,           \* position of main: "validate", "discover", "empty_check",
                  \* "prepare", "loop", "summarize", "done"; "crashed"
                  \* after an uncaught exception
    args,         \* argparse namespace: image_path, font_size, color, position
    disk,         \* the filesystem: a set of entries [path, kind, data]
    disk0,        \* the filesystem as it was when the first run started
    clock,        \* the calendar day datetime.now() falls on
    input_dir,    \* main's local input_dir
    image_files,  \* main's local image_files
    output_dir,   \* main's local output_dir
    idx,          \* index in image_files of the next file of the for loop
    stdout,       \* everything printed by the current run
    run,          \* number of the current invocation of main
    firstRun,     \* what the first invocation discovered and left on disk
    lay,          \* get_watermark_position exercised alone: arguments, result
    dat           \* the watermark text choice exercised alone: container, result

vars == <<pc, args, disk, disk0, clock, input_dir, image_files, output_dir,
          idx, stdout, run, firstRun, lay, dat>>

mainVars == <<pc, args, disk, disk0, clock, input_dir, image_files, output_dir,
              idx, stdout, run, firstRun>>

(***************************************************************************)
(* Characters and strings                                                  *)
(***************************************************************************)
Digits == {"0", "1", "2", "3", "4", "5", "6", "7", "8", "9"}

DigitVal(c) ==
    CASE c = "0" -> 0 [] c = "1" -> 1 [] c = "2" -> 2 [] c = "3" -> 3
      [] c = "4" -> 4 [] c = "5" -> 5 [] c = "6" -> 6 [] c = "7" -> 7
      [] c = "8" -> 8 [] c = "9" -> 9

DigitChar(n) ==
    CASE n = 0 -> "0" [] n = 1 -> "1" [] n = 2 -> "2" [] n = 3 -> "3"
      [] n = 4 -> "4" [] n = 5 -> "5" [] n = 6 -> "6" [] n = 7 -> "7"
      [] n = 8 -> "8" [] n = 9 -> "9"

\* str.upper() on one character (the letters the extension list uses)
UpperChar(c) ==
    CASE c = "j" -> "J" [] c = "p" -> "P" [] c = "g" -> "G" [] c = "e" -> "E"
      [] c = "n" -> "N" [] c = "t" -> "T" [] c = "i" -> "I" [] c = "f" -> "F"
      [] c = "b" -> "B" [] c = "m" -> "M" [] c = "w" -> "W"
      [] OTHER -> c

Upper(s) == [i \in 1..Len(s) |-> UpperChar(s[i])]

\* the largest index of character c in s, 0 when there is none (str.rfind + 1)
RECURSIVE RFind(_, _, _)
RFind(s, c, i) ==
    IF i = 0 THEN 0
    ELSE IF s[i] = c THEN i
    ELSE RFind(s, c, i - 1)

\* str.rstrip('/')
RECURSIVE RStripSlash(_)
RStripSlash(s) ==
    IF s # <<>> /\ s[Len(s)] = "/" THEN RStripSlash(SubSeq(s, 1, Len(s) - 1))
    ELSE s

AllSlashes(s) == \A i \in 1..Len(s) : s[i] = "/"

EndsWith(s, suffix) ==
    /\ Len(s) >= Len(suffix)
    /\ SubSeq(s, Len(s) - Len(suffix) + 1, Len(s)) = suffix

(***************************************************************************)
(* os.path (posixpath)                                                     *)
(***************************************************************************)
basename(p) == SubSeq(p, RFind(p, "/", Len(p)) + 1, Len(p))

dirname(p) ==
    LET head == SubSeq(p, 1, RFind(p, "/", Len(p)))
    IN  IF head # <<>> /\ ~AllSlashes(head) THEN RStripSlash(head) ELSE head

join(a, b) ==
    IF b # <<>> /\ b[1] = "/" THEN b
    ELSE IF a = <<>> \/ a[Len(a)] = "/" THEN a \o b
    ELSE a \o <<"/">> \o b

\* The components a path names, as the kernel resolves it from the working
\* directory: empty components and "." are skipped.
RECURSIVE Components(_)
Components(p) ==
    IF p = <<>> THEN <<>>
    ELSE LET cut  == RFind(p, "/", Len(p))
             last == SubSeq(p, cut + 1, Len(p))
             rest == Components(SubSeq(p, 1, cut - 1))
         IN  IF last = <<>> \/ last = <<".">> THEN rest ELSE Append(rest, last)

(***************************************************************************)
(* datetime.strptime(s, "%Y:%m:%d %H:%M:%S") and the display strftime       *)
(***************************************************************************)
NoMatch == [len |-> 0, val |-> 0]

TwoDigitsAt(s, i) == i + 1 <= Len(s) /\ s[i] \in Digits /\ s[i + 1] \in Digits

OneDigitAt(s, i) == i <= Len(s) /\ s[i] \in Digits

Val2(s, i) == 10 * DigitVal(s[i]) + DigitVal(s[i + 1])

\* One directive of the format matched at position i of s, by the regular
\* expression _strptime compiles for it; the alternatives are tried in the
\* expression's order (the two-character ones first).
\*   %m  1[0-2]|0[1-9]|[1-9]
\*   %d  3[0-1]|[1-2]\d|0[1-9]|[1-9]| [1-9]
\*   %H  2[0-3]|[0-1]\d|\d
\*   %M  [0-5]\d|\d
\*   %S  6[0-1]|[0-5]\d|\d
Directive(s, i, d) ==
    LET lo2 == IF d \in {"m", "d"} THEN 1 ELSE 0
        hi2 == CASE d = "m" -> 12 [] d = "d" -> 31 [] d = "H" -> 23
                 [] d = "M" -> 59 [] d = "S" -> 61
        lo1 == IF d \in {"m", "d"} THEN 1 ELSE 0
    IN  IF TwoDigitsAt(s, i) /\ Val2(s, i) >= lo2 /\ Val2(s, i) <= hi2
          THEN [len |-> 2, val |-> Val2(s, i)]
        ELSE IF OneDigitAt(s, i) /\ DigitVal(s[i]) >= lo1
          THEN [len |-> 1, val |-> DigitVal(s[i])]
        ELSE IF d = "d" /\ i + 1 <= Len(s) /\ s[i] = " "
                /\ s[i + 1] \in Digits /\ DigitVal(s[i + 1]) >= 1
          THEN [len |-> 2, val |-> DigitVal(s[i + 1])]
        ELSE NoMatch

LiteralAt(s, i, c) == i <= Len(s) /\ s[i] = c

\* \s+ : the first position at or after i that holds no white space
RECURSIVE SkipSpaces(_, _)
SkipSpaces(s, i) ==
    IF i <= Len(s) /\ s[i] = " " THEN SkipSpaces(s, i + 1) ELSE i

IsLeap(y) == (y % 4 = 0 /\ y % 100 # 0) \/ y % 400 = 0

DaysInMonth(y, m) ==
    IF m = 2 THEN (IF IsLeap(y) THEN 29 ELSE 28)
    ELSE IF m \in {4, 6, 9, 11} THEN 30
    ELSE 31

ValueError == [ok |-> FALSE, year |-> 0, month |-> 0, day |-> 0]

\* datetime(year, month, day, hour, minute, second): the date, or ValueError
\* when a field is out of range
MakeDate(y, m, d, sec) ==
    IF /\ y >= 1                        \* year 0 is out of range
       /\ d <= DaysInMonth(y, m)        \* day is out of range for month
       /\ sec <= 59                     \* second must be in 0..59
    THEN [ok |-> TRUE, year |-> y, month |-> m, day |-> d]
    ELSE ValueError

\* The format is matched from left to right; each step below matches one
\* directive at position i, given the fields matched before it, and hands
\* over to the next step.  The string must end where %S ends, or strptime
\* raises "unconverted data remains".
ParseSecond(s, i, y, m, d, f) ==
    IF f.len > 0 /\ i + f.len = Len(s) + 1 THEN MakeDate(y, m, d, f.val)
    ELSE ValueError

ParseMinute(s, i, y, m, d, f) ==
    IF f.len > 0 /\ LiteralAt(s, i + f.len, ":")
    THEN ParseSecond(s, i + f.len + 1, y, m, d, Directive(s, i + f.len + 1, "S"))
    ELSE ValueError

ParseHour(s, i, y, m, d, f) ==
    IF f.len > 0 /\ LiteralAt(s, i + f.len, ":")
    THEN ParseMinute(s, i + f.len + 1, y, m, d, Directive(s, i + f.len + 1, "M"))
    ELSE ValueError

\* \s+ between %d and %H: at least one white space, at i
ParseSpaces(s, i, y, m, d, j) ==
    IF j > i THEN ParseHour(s, j, y, m, d, Directive(s, j, "H"))
    ELSE ValueError

ParseDay(s, i, y, m, f) ==
    IF f.len > 0
    THEN ParseSpaces(s, i + f.len, y, m, f.val, SkipSpaces(s, i + f.len))
    ELSE ValueError

ParseMonth(s, i, y, f) ==
    IF f.len > 0 /\ LiteralAt(s, i + f.len, ":")
    THEN ParseDay(s, i + f.len + 1, y, f.val, Directive(s, i + f.len + 1, "d"))
    ELSE ValueError

\* The date strptime returns (the time of day is parsed and then dropped by
\* the display format), or ValueError when it raises.  %Y is \d\d\d\d.
Strptime(s) ==
    IF /\ Len(s) >= 4
       /\ \A k \in 1..4 : s[k] \in Digits
       /\ LiteralAt(s, 5, ":")
    THEN ParseMonth(s, 6,
                    1000 * DigitVal(s[1]) + 100 * DigitVal(s[2])
                      + 10 * DigitVal(s[3]) + DigitVal(s[4]),
                    Directive(s, 6, "m"))
    ELSE ValueError

\* %Y : the year in decimal, not padded (glibc)
RECURSIVE YearStr(_)
YearStr(y) ==
    IF y < 10 THEN <<DigitChar(y)>>
    ELSE Append(YearStr(y \div 10), DigitChar(y % 10))

\* %m and %d : two digits, zero padded
TwoDigitStr(n) == <<DigitChar(n \div 10), DigitChar(n % 10)>>

\* the three CJK characters of the display pattern, each one character
CharNian == "U+5E74"
CharYue == "U+6708"
CharRi == "U+65E5"

Strftime(date) ==
    YearStr(date.year) \o <<CharNian>> \o TwoDigitStr(date.month) \o <<CharYue>>
        \o TwoDigitStr(date.day) \o <<CharRi>>

(***************************************************************************)
(* get_exif_date and the caller's fallback                                 *)
(***************************************************************************)
\* An EXIF container is [load, orig, dt]: load is "ok" or "error"
\* (piexif.load raised); orig is the value of Exif/DateTimeOriginal and dt
\* the value of 0th/DateTime, each a byte string or Absent.
Absent == <<"absent">>

None == <<"None">>

\* a byte that is no valid UTF-8
BadByte == "xff"

Decodable(bytes) == \A i \in 1..Len(bytes) : bytes[i] # BadByte

\* bytes.decode('utf-8'), strptime and strftime of lines 21-22 and 26-27:
\* the display string, or None when one of them raises and line 29 catches it
FormatOrNone(date) == IF date.ok THEN Strftime(date) ELSE None

DecodeParseFormat(bytes) ==
    IF Decodable(bytes) THEN FormatOrNone(Strptime(bytes)) ELSE None

\* get_exif_date with the parse of DateTimeOriginal guarded on its own, so
\* that an unusable DateTimeOriginal falls through to DateTime
ExifDateFallThrough(exif) ==
    IF exif.load # "ok" THEN None
    ELSE IF exif.orig # Absent /\ Decodable(exif.orig) /\ Strptime(exif.orig).ok
      THEN DecodeParseFormat(exif.orig)
    ELSE IF exif.dt # Absent THEN DecodeParseFormat(exif.dt)
    ELSE None

get_exif_date(exif) ==
    IF exif.load # "ok" THEN None
    ELSE IF exif.orig # Absent THEN DecodeParseFormat(exif.orig)
    ELSE IF exif.dt # Absent THEN DecodeParseFormat(exif.dt)
    ELSE None

\* the calendar: day 0 of the clock and the days after it
Epoch == [ok |-> TRUE, year |-> 2024, month |-> 2, day |-> 28]

NextDay(date) ==
    IF date.day < DaysInMonth(date.year, date.month)
      THEN [date EXCEPT !.day = date.day + 1]
    ELSE IF date.month < 12
      THEN [date EXCEPT !.month = date.month + 1, !.day = 1]
    ELSE [date EXCEPT !.year = date.year + 1, !.month = 1, !.day = 1]

RECURSIVE Now(_)
Now(day) == IF day = 0 THEN Epoch ELSE NextDay(Now(day - 1))

\* `not watermark_text`
Falsy(text) == text = None \/ text = <<>>

\* lines 69-70: the caller's substitution for what get_exif_date returned
OrToday(ret, day) == IF Falsy(ret) THEN Strftime(Now(day)) ELSE ret

\* lines 68-70: the text that is drawn
WatermarkText(exif, day) == OrToday(get_exif_date(exif), day)

(***************************************************************************)
(* get_watermark_position                                                  *)
(***************************************************************************)
padding == 20

\* get_watermark_position with an unrecognized position sent to the top-left
\* corner instead of the bottom-right one
PositionElseTopLeft(img_width, img_height, text_width, text_height, position) ==
    IF position = "top-left" THEN
        <<padding, padding>>
    ELSE IF position = "top-right" THEN
        <<img_width - text_width - padding, padding>>
    ELSE IF position = "bottom-left" THEN
        <<padding, img_height - text_height - padding>>
    ELSE IF position = "bottom-right" THEN
        <<img_width - text_width - padding, img_height - text_height - padding>>
    ELSE IF position = "center" THEN
        <<(img_width - text_width) \div 2, (img_height - text_height) \div 2>>
    ELSE IF position = "top-center" THEN
        <<(img_width - text_width) \div 2, padding>>
    ELSE IF position = "bottom-center" THEN
        <<(img_width - text_width) \div 2, img_height - text_height - padding>>
    ELSE
        <<padding, padding>>

\* get_watermark_position with the margin left out of the right-hand anchors
PositionNoRightMargin(img_width, img_height, text_width, text_height, position) ==
    IF position = "top-left" THEN
        <<padding, padding>>
    ELSE IF position = "top-right" THEN
        <<img_width - text_width, padding>>
    ELSE IF position = "bottom-left" THEN
        <<padding, img_height - text_height - padding>>
    ELSE IF position = "bottom-right" THEN
        <<img_width - text_width, img_height - text_height - padding>>
    ELSE IF position = "center" THEN
        <<(img_width - text_width) \div 2, (img_height - text_height) \div 2>>
    ELSE IF position = "top-center" THEN
        <<(img_width - text_width) \div 2, padding>>
    ELSE IF position = "bottom-center" THEN
        <<(img_width - text_width) \div 2, img_height - text_height - padding>>
    ELSE
        <<img_width - text_width, img_height - text_height - padding>>

get_watermark_position(img_width, img_height, text_width, text_height, position) ==
    IF position = "top-left" THEN
        <<padding, padding>>
    ELSE IF position = "top-right" THEN
        <<img_width - text_width - padding, padding>>
    ELSE IF position = "bottom-left" THEN
        <<padding, img_height - text_height - padding>>
    ELSE IF position = "bottom-right" THEN
        <<img_width - text_width - padding, img_height - text_height - padding>>
    ELSE IF position = "center" THEN
        <<(img_width - text_width) \div 2, (img_height - text_height) \div 2>>
    ELSE IF position = "top-center" THEN
        <<(img_width - text_width) \div 2, padding>>
    ELSE IF position = "bottom-center" THEN
        <<(img_width - text_width) \div 2, img_height - text_height - padding>>
    ELSE
        <<img_width - text_width - padding, img_height - text_height - padding>>

(***************************************************************************)
(* The filesystem                                                          *)
(*                                                                         *)
(* An entry is [path, kind, data]: path is the sequence of components from *)
(* the working directory, kind is "file" or "dir", and data is what a file *)
(* holds: [pixels, w, h, exif, fail, mark].  pixels names the picture, w   *)
(* and h are its size, exif is its EXIF container, fail is the first step  *)
(* of add_watermark_to_image that raises on this file ("none", "open",     *)
(* "convert", "draw" or "save"), and mark is what has been drawn on it:    *)
(* <<>> for a source picture, <<text, x, y, color, font>> for an output.   *)
(***************************************************************************)
NoExif == [load |-> "error", orig |-> Absent, dt |-> Absent]

NoData == [pixels |-> "", w |-> 0, h |-> 0, exif |-> NoExif, fail |-> "open",
           mark |-> <<>>]

Dir(path) == [path |-> path, kind |-> "dir", data |-> NoData]

File(path, data) == [path |-> path, kind |-> "file", data |-> data]

\* the entry at the components c, if there is one
Entries(d, c) == { e \in d : e.path = c }

ExistsAt(d, c) == c = <<>> \/ Entries(d, c) # {}

\* os.path.exists
exists(d, p) == p # <<>> /\ ExistsAt(d, Components(p))

IsFileAt(d, c) == \E e \in Entries(d, c) : e.kind = "file"

\* os.path.isfile
isfile(d, p) == p # <<>> /\ IsFileAt(d, Components(p))

LookupAt(d, c) == CHOOSE e \in d : e.path = c

Lookup(d, p) == LookupAt(d, Components(p))

MakedirsAt(d, c) == d \cup { Dir(SubSeq(c, 1, k)) : k \in 1..Len(c) }

\* os.makedirs(p, exist_ok=True): p and every missing ancestor of p.  No
\* entry of the modelled filesystems is a file named like an output directory.
makedirs(d, p) == MakedirsAt(d, Components(p))

\* WriteFile that adds the new file next to the one already at p
WriteFileKeepOld(d, p, data) == d \cup { File(Components(p), data) }

WriteFileAt(d, c, data) == (d \ Entries(d, c)) \cup { File(c, data) }

\* a file written at p, replacing what was there
WriteFile(d, p, data) == WriteFileAt(d, Components(p), data)

(***************************************************************************)
(* glob.glob                                                               *)
(***************************************************************************)
\* fnmatch.fnmatchcase for a pattern of literal characters and '*'
RECURSIVE fnmatch(_, _)
fnmatch(name, pat) ==
    IF pat = <<>> THEN name = <<>>
    ELSE IF Head(pat) = "*"
      THEN fnmatch(name, Tail(pat)) \/ (name # <<>> /\ fnmatch(Tail(name), pat))
    ELSE name # <<>> /\ Head(name) = Head(pat) /\ fnmatch(Tail(name), Tail(pat))

\* glob._ishidden
ishidden(name) == name # <<>> /\ name[1] = "."

\* every file name of the modelled filesystems; os.scandir lists a directory
\* in this order or in the reverse one
NameA == <<"a", ".", "j", "p", "g">>
NameB == <<"b", ".", "P", "N", "G">>
NameG == <<"g", ".", "j", "p", "e", "g">>
NameC == <<"c", ".", "J", "p", "g">>
NameN == <<"n", ".", "t", "x", "t">>
NameH == <<".", "h", ".", "j", "p", "g">>
NameE == <<"e", ".", "p", "n", "g">>
NameF == <<"f", ".", "j", "p", "g">>
NameD == <<"d">>
NameS == <<"s">>
WatermarkSuffix == <<"_", "w", "a", "t", "e", "r", "m", "a", "r", "k">>

AllNames ==
    <<NameA, NameB, NameG, NameC, NameN, NameH, NameE, NameF, NameD, NameS,
      NameD \o WatermarkSuffix, <<".">> \o WatermarkSuffix, WatermarkSuffix>>

Reverse(s) == [i \in 1..Len(s) |-> s[Len(s) + 1 - i]]

ListingOrders == {AllNames, Reverse(AllNames)}

ListAt(d, parent, order) ==
    LET Inside(name) == \E e \in d : e.path = Append(parent, name)
    IN  IF parent # <<>> /\ ~\E e \in Entries(d, parent) : e.kind = "dir"
        THEN <<>>
        ELSE SelectSeq(order, Inside)

\* os.scandir(dir): the names of the entries directly inside dir
listdir(d, dir, order) == ListAt(d, Components(dir), order)

\* glob.glob(pathname) for a pathname whose last component alone has a '*'
glob(d, pathname, order) ==
    LET dir     == dirname(pathname)
        pattern == basename(pathname)
        Keep(name) == (ishidden(pattern) \/ ~ishidden(name)) /\ fnmatch(name, pattern)
        names   == SelectSeq(listdir(d, dir, order), Keep)
    IN  [i \in 1..Len(names) |-> join(dir, names[i])]

image_extensions ==
    << <<"*", ".", "j", "p", "g">>,
       <<"*", ".", "j", "p", "e", "g">>,
       <<"*", ".", "p", "n", "g">>,
       <<"*", ".", "t", "i", "f", "f">>,
       <<"*", ".", "b", "m", "p">>,
       <<"*", ".", "w", "e", "b", "p">> >>

\* lines 136-139: the loop over image_extensions from its k-th element on
RECURSIVE GlobAll(_, _, _, _)
GlobAll(d, dir, order, k) ==
    IF k > Len(image_extensions) THEN <<>>
    ELSE glob(d, join(dir, image_extensions[k]), order)
           \o glob(d, join(dir, Upper(image_extensions[k])), order)
           \o GlobAll(d, dir, order, k + 1)

(***************************************************************************)
(* add_watermark_to_image                                                  *)
(***************************************************************************)
Line(kind, path, n, text) == [kind |-> kind, path |-> path, n |-> n, text |-> text]

\* lines 74-84: the first font that loads, of the fonts the host has
ResolveFont(fonts) ==
    IF "arial.ttf" \in fonts THEN "arial.ttf"
    ELSE IF "/System/Library/Fonts/Arial.ttf" \in fonts
      THEN "/System/Library/Fonts/Arial.ttf"
    ELSE IF "/usr/share/fonts/truetype/freefont/FreeMono.ttf" \in fonts
      THEN "/usr/share/fonts/truetype/freefont/FreeMono.ttf"
    ELSE "default"

\* lines 87-89: the size of the text box.  A loaded font is scaled to
\* font_size; the built-in font has one size whatever was asked for.
\* (its glyphs are 6 pixels wide and 11 high)
TextSize(text, font, font_size) ==
    IF font = "default" THEN <<Len(text) * 6, 11>>
    ELSE <<Len(text) * (font_size \div 2), font_size>>

\* line 108: the steps of add_watermark_to_image whose exception the
\* `except Exception` catches; the try block spans lines 57-106
CatchesAllButSave(step) == step \in {"open", "convert", "draw"}

Catches(step) == step \in {"open", "convert", "draw", "save"}

\* a step raises: line 109 prints the failure when the exception is caught,
\* and the exception leaves add_watermark_to_image when it is not
Raise(d, image_path, step, printed) ==
    IF Catches(step)
    THEN [disk |-> d, raised |-> FALSE,
          out |-> Append(printed, Line("error", image_path, 0, <<>>))]
    ELSE [disk |-> d, raised |-> TRUE, out |-> printed]

\* lines 101-106: the output directory, the save and the success line
Save(d, image_path, output_path, a, img, text, font, xy, printed) ==
    IF img.fail = "save" THEN
        Raise(makedirs(d, dirname(output_path)), image_path, "save", printed)
    ELSE
        [disk |-> WriteFile(makedirs(d, dirname(output_path)), output_path,
                     [pixels |-> img.pixels, w |-> img.w, h |-> img.h,
                      exif |-> NoExif, fail |-> "none",
                      mark |-> <<text, xy[1], xy[2], a.color, font>>]),
         raised |-> FALSE,
         out |-> Append(printed, Line("ok", basename(image_path), 0, text))]

\* lines 86-99: the text box, its position and the two draw.text calls
Draw(d, image_path, output_path, a, img, text, font, size, printed) ==
    IF img.fail = "draw" THEN Raise(d, image_path, "draw", printed)
    ELSE Save(d, image_path, output_path, a, img, text, font,
              get_watermark_position(img.w, img.h, size[1], size[2], a.position),
              printed)

\* lines 73-84: the font, with the warning of line 84 for the built-in one
LoadFont(d, image_path, output_path, a, img, text, font, printed) ==
    Draw(d, image_path, output_path, a, img, text, font,
         TextSize(text, font, a.font_size),
         IF font = "default"
         THEN Append(printed, Line("default_font", <<>>, 0, <<>>))
         ELSE printed)

\* lines 67-71: the text; line 30 prints when get_exif_date caught an
\* exception (nothing raises when both fields are absent), line 71 when
\* today's date is substituted
ChooseWatermarkText(d, image_path, output_path, a, img, ret, today) ==
    LoadFont(d, image_path, output_path, a, img, OrToday(ret, today),
             ResolveFont(a.fonts),
             (IF img.exif.load # "ok"
                 \/ (ret = None /\ (img.exif.orig # Absent \/ img.exif.dt # Absent))
              THEN <<Line("exif_error", image_path, 0, <<>>)>>
              ELSE <<>>)
             \o
             (IF Falsy(ret)
              THEN <<Line("fallback_date", basename(image_path), 0, OrToday(ret, today))>>
              ELSE <<>>))

\* lines 59-62: Image.open and img.convert('RGB')
Open(d, image_path, output_path, a, e, today) ==
    IF e.kind # "file" \/ e.data.fail = "open" THEN
        Raise(d, image_path, "open", <<>>)
    ELSE IF e.data.fail = "convert" THEN
        Raise(d, image_path, "convert", <<>>)
    ELSE ChooseWatermarkText(d, image_path, output_path, a, e.data,
                             get_exif_date(e.data.exif), today)

\* What add_watermark_to_image(image_path, output_path, ...) does on
\* filesystem d when datetime.now() falls on day `today`: the filesystem it
\* leaves, the lines it prints and whether an exception leaves it.
add_watermark_to_image(d, image_path, output_path, a, today) ==
    IF ~exists(d, image_path) THEN Raise(d, image_path, "open", <<>>)
    ELSE Open(d, image_path, output_path, a, Lookup(d, image_path), today)

(***************************************************************************)
(* The inputs: command lines, hosts and directories                        *)
(***************************************************************************)
MaxRuns == 2    \* invocations of main on the same command line
MaxDay == 1     \* days the clock can advance after day 0

Str2023 == <<"2","0","2","3",":","0","5",":","1","7"," ","1","0",":","2","2",":","0","0">>
Str2021 == <<"2","0","2","1",":","1",":","9"," ","8",":","3","0",":","0","0">>
StrDash == <<"2","0","2","3","-","0","5","-","1","7">>
StrFeb30 == <<"2","0","2","3",":","0","2",":","3","0"," ","1","0",":","0","0",":","0","0">>
StrZero == <<"0","0","0","0",":","0","0",":","0","0"," ","0","0",":","0","0",":","0","0">>
StrSpaceDay == <<"1","9","9","9",":","1","2",":"," ","7"," "," ","2","3",":","5","9",":","5","9">>
StrTrail == Str2023 \o <<" ">>
StrSec60 == <<"2","0","2","0",":","0","2",":","2","9"," ","2","3",":","5","9",":","6","0">>
StrLeap == <<"2","0","2","0",":","0","2",":","2","9"," ","2","3",":","5","9",":","5","9">>
StrYear999 == <<"0","9","9","9",":","0","1",":","0","1"," ","0",":","0",":","0">>
StrBadByte == <<"2","0","2","3",":","0","5",":","1","7"," ","1","0",":","2","2",":","0",BadByte>>

\* values of a date field of an EXIF container
FieldValues ==
    {Absent, <<>>, Str2023, Str2021, StrDash, StrFeb30, StrZero, StrSpaceDay,
     StrTrail, StrSec60, StrLeap, StrYear999, StrBadByte}

Containers ==
    [load : {"ok", "error"}, orig : FieldValues, dt : FieldValues]

Picture(pixels, w, h, exif, fail) ==
    [pixels |-> pixels, w |-> w, h |-> h, exif |-> exif, fail |-> fail, mark |-> <<>>]

Exif(orig, dt) == [load |-> "ok", orig |-> orig, dt |-> dt]

\* what a.jpg, b.PNG and g.jpeg can be; <<>> is "not there"
ChoicesA ==
    { <<>>,
      <<Picture("A", 640, 480, Exif(Str2023, Absent), "none")>>,
      <<Picture("A", 640, 480, Exif(StrDash, Str2021), "none")>>,
      <<Picture("A", 0, 0, NoExif, "open")>> }

ChoicesB ==
    { <<>>,
      <<Picture("B", 100, 60, NoExif, "none")>>,
      <<Picture("B", 100, 60, NoExif, "save")>>,
      <<Picture("B", 100, 60, Exif(Str2023, Absent), "convert")>> }

ChoicesG ==
    { <<>>,
      <<Picture("G", 640, 480, Exif(Absent, Str2021), "none")>>,
      <<Picture("G", 640, 480, Exif(Absent, Absent), "draw")>>,
      <<Picture("G", 0, 0, NoExif, "open")>> }

Optional(path, choice) == { File(path, choice[i]) : i \in 1..Len(choice) }

\* The working directory holds f.jpg and the directory d; d holds c.Jpg,
\* n.txt, .h.jpg, the subdirectory s with s/e.png and, each optional, a.jpg,
\* b.PNG and g.jpeg.
InitialDisks ==
    { { Dir(<<NameD>>),
        Dir(<<NameD, NameS>>),
        File(<<NameF>>, Picture("F", 640, 480, Exif(Absent, Absent), "none")),
        File(<<NameD, NameC>>, Picture("C", 640, 480, Exif(StrLeap, Absent), "none")),
        File(<<NameD, NameN>>, Picture("N", 0, 0, NoExif, "open")),
        File(<<NameD, NameH>>, Picture("H", 640, 480, Exif(Str2023, Absent), "none")),
        File(<<NameD, NameS, NameE>>, Picture("E", 640, 480, NoExif, "none")) }
      \cup Optional(<<NameD, NameA>>, a)
      \cup Optional(<<NameD, NameB>>, b)
      \cup Optional(<<NameD, NameG>>, g)
      : a \in ChoicesA, b \in ChoicesB, g \in ChoicesG }

\* image_path arguments: a directory (as d, d/ and ./d), a file in it, a file
\* with no directory part, a path that does not exist
InputPaths ==
    { <<"d">>, <<"d", "/">>, <<".", "/", "d">>,
      <<"d", "/">> \o NameA, <<"d", "/">> \o NameC, NameF, <<"n", "o">> }

\* --position values exercised (two of the seven argparse accepts)
ArgPositions == {"bottom-right", "center"}

\* the font files the host has
HostFonts == { {"arial.ttf"}, {} }

Arguments ==
    [image_path : InputPaths, font_size : {36}, color : {"white"},
     position : ArgPositions, fonts : HostFonts]

LayIdle == [phase |-> "idle", w |-> 0, h |-> 0, tw |-> 0, th |-> 0,
            position |-> "", xy |-> <<0, 0>>]

DatIdle == [phase |-> "idle", exif |-> NoExif, day |-> 0, ret |-> None, text |-> None]

NoFirstRun == [done |-> FALSE, tasks |-> {}, disk |-> {}]

Range(seq) == { seq[i] : i \in 1..Len(seq) }

(***************************************************************************)
(* main                                                                    *)
(***************************************************************************)
Init ==
    /\ pc = "validate"
    /\ args \in Arguments
    /\ disk \in InitialDisks
    /\ disk0 = disk
    /\ clock = 0
    /\ input_dir = <<>>
    /\ image_files = <<>>
    /\ output_dir = <<>>
    /\ idx = 1
    /\ stdout = <<>>
    /\ run = 1
    /\ firstRun = NoFirstRun
    /\ lay = LayIdle
    /\ dat = DatIdle

\* lines 123-126
Validate ==
    /\ pc = "validate"
    /\ IF ~exists(disk, args.image_path)
       THEN /\ stdout' = Append(stdout, Line("not_found", args.image_path, 0, <<>>))
            /\ pc' = "done"
       ELSE /\ pc' = "discover"
            /\ UNCHANGED stdout
    /\ UNCHANGED <<args, disk, disk0, clock, input_dir, image_files, output_dir,
                   idx, run, firstRun, lay, dat>>

\* lines 128-139
Discover ==
    /\ pc = "discover"
    /\ IF isfile(disk, args.image_path)
       THEN /\ image_files' = <<args.image_path>>
            /\ input_dir' = IF dirname(args.image_path) # <<>>
                            THEN dirname(args.image_path) ELSE <<".">>
       ELSE /\ input_dir' = args.image_path
            /\ \E order \in ListingOrders :
                   image_files' = GlobAll(disk, args.image_path, order, 1)
    /\ pc' = "empty_check"
    /\ UNCHANGED <<args, disk, disk0, clock, output_dir, idx, stdout, run,
                   firstRun, lay, dat>>

\* EmptyCheck with the output directory of line 147 created before the check
EmptyCheckAfterMakedirs ==
    /\ pc = "empty_check"
    /\ disk' = makedirs(disk, join(input_dir, basename(input_dir) \o WatermarkSuffix))
    /\ IF image_files = <<>>
       THEN /\ stdout' = Append(stdout, Line("no_files", input_dir, 0, <<>>))
            /\ pc' = "done"
       ELSE /\ pc' = "prepare"
            /\ UNCHANGED stdout
    /\ UNCHANGED <<args, disk0, clock, input_dir, image_files, output_dir,
                   idx, run, firstRun, lay, dat>>

\* lines 141-143
EmptyCheck ==
    /\ pc = "empty_check"
    /\ IF image_files = <<>>
       THEN /\ stdout' = Append(stdout, Line("no_files", input_dir, 0, <<>>))
            /\ pc' = "done"
       ELSE /\ pc' = "prepare"
            /\ UNCHANGED stdout
    /\ UNCHANGED <<args, disk, disk0, clock, input_dir, image_files, output_dir,
                   idx, run, firstRun, lay, dat>>

\* OutputDir that is the input directory itself
OutputDirInPlace(dir) == dir

\* line 146
OutputDir(dir) == join(dir, basename(dir) \o WatermarkSuffix)

\* lines 145-152
PrepareOutput ==
    /\ pc = "prepare"
    /\ output_dir' = OutputDir(input_dir)
    /\ disk' = makedirs(disk, OutputDir(input_dir))
    /\ stdout' = stdout \o
          << Line("start", <<>>, Len(image_files), <<>>),
             Line("output_dir", OutputDir(input_dir), 0, <<>>),
             Line("settings", <<>>, args.font_size, <<>>),
             Line("rule", <<>>, 0, <<>>) >>
    /\ idx' = 1
    /\ pc' = "loop"
    /\ UNCHANGED <<args, disk0, clock, input_dir, image_files, run, firstRun,
                   lay, dat>>

\* OutputPath named after the directory of the source, not after its file
OutputPathOfDirname(dir, image_file) == join(dir, basename(dirname(image_file)))

\* line 157
OutputPath(dir, image_file) == join(dir, basename(image_file))

\* where the for loop of line 155 goes after the file at index i
AfterFile(i, n) == IF i < n THEN "loop" ELSE "summarize"

\* line 70 ran: datetime.now() was read (line 71 printed)
ReadsClock(printed) ==
    \E i \in 1..Len(printed) : printed[i].kind = "fallback_date"

\* lines 155-158: one iteration of the for loop; an exception that leaves
\* add_watermark_to_image ends main with a traceback.  The clock is seen to
\* have advanced, if it has, when line 70 reads it.
ProcessFile ==
    /\ pc = "loop"
    /\ idx <= Len(image_files)
    /\ \E today \in clock..MaxDay :
          LET r == add_watermark_to_image(disk, image_files[idx],
                     OutputPath(output_dir, image_files[idx]), args, today)
          IN  /\ disk' = r.disk
              /\ stdout' = stdout \o r.out
              /\ clock' = IF ReadsClock(r.out) THEN today ELSE clock
              /\ pc' = IF r.raised THEN "crashed"
                       ELSE AfterFile(idx, Len(image_files))
    /\ idx' = idx + 1
    /\ UNCHANGED <<args, disk0, input_dir, image_files, output_dir, run,
                   firstRun, lay, dat>>

\* lines 160-161
Summarize ==
    /\ pc = "summarize"
    /\ stdout' = stdout \o
          << Line("rule", <<>>, 0, <<>>),
             Line("all_saved", output_dir, 0, <<>>) >>
    /\ pc' = "done"
    /\ firstRun' = IF run = 1
                   THEN [done |-> TRUE, tasks |-> Range(image_files), disk |-> disk]
                   ELSE firstRun
    /\ UNCHANGED <<args, disk, disk0, clock, input_dir, image_files, output_dir,
                   idx, run, lay, dat>>

\* lines 163-164: the same command line is run again, the same day or later
RunAgain ==
    /\ pc = "done"
    /\ run < MaxRuns
    /\ run' = run + 1
    /\ \E today \in clock..MaxDay : clock' = today
    /\ disk0' = disk
    /\ pc' = "validate"
    /\ input_dir' = <<>>
    /\ image_files' = <<>>
    /\ output_dir' = <<>>
    /\ idx' = 1
    /\ stdout' = <<>>
    /\ UNCHANGED <<args, disk, firstRun, lay, dat>>

Next ==
    \/ Validate
    \/ Discover
    \/ EmptyCheck
    \/ PrepareOutput
    \/ ProcessFile
    \/ Summarize
    \/ RunAgain

Spec == Init /\ [][Next]_vars

(***************************************************************************)
(* get_watermark_position and the text choice, each exercised alone on     *)
(* arguments drawn from bounded sets                                       *)
(***************************************************************************)
MaxImg == 45    \* largest image width and height
MaxText == 4    \* largest text box width and height

ImgSizes == {0, 1} \cup 39..MaxImg

TextSizes == -1..MaxText

Anchors == {"top-left", "top-center", "top-right", "center", "bottom-left",
            "bottom-center", "bottom-right"}

Idle ==
    /\ pc = "off"
    /\ args = [image_path |-> <<>>, font_size |-> 36, color |-> "white",
               position |-> "bottom-right", fonts |-> {}]
    /\ disk = {}
    /\ disk0 = {}
    /\ clock = 0
    /\ input_dir = <<>>
    /\ image_files = <<>>
    /\ output_dir = <<>>
    /\ idx = 1
    /\ stdout = <<>>
    /\ run = 1
    /\ firstRun = NoFirstRun

InitLayout ==
    /\ Idle
    /\ dat = DatIdle
    /\ lay \in [phase : {"args"}, w : ImgSizes, h : ImgSizes, tw : TextSizes,
                th : TextSizes, position : Anchors \cup {"middle", ""},
                xy : {<<0, 0>>}]

\* line 92: the call of get_watermark_position
ComputePosition ==
    /\ lay.phase = "args"
    /\ lay' = [lay EXCEPT !.phase = "result",
                          !.xy = get_watermark_position(lay.w, lay.h, lay.tw,
                                                        lay.th, lay.position)]
    /\ UNCHANGED <<mainVars, dat>>

SpecLayout == InitLayout /\ [][ComputePosition]_vars

InitDate ==
    /\ Idle
    /\ lay = LayIdle
    /\ dat \in [phase : {"args"}, exif : Containers, day : 0..MaxDay,
                ret : {None}, text : {None}]

\* lines 68-70: the call of get_exif_date and the caller's substitution
ChooseText ==
    /\ dat.phase = "args"
    /\ dat' = [dat EXCEPT !.phase = "result",
                          !.ret = get_exif_date(dat.exif),
                          !.text = WatermarkText(dat.exif, dat.day)]
    /\ UNCHANGED <<mainVars, lay>>

SpecDate == InitDate /\ [][ChooseText]_vars

(***************************************************************************)
(* Claims about get_watermark_position (SpecLayout)                        *)
(***************************************************************************)
LayX == lay.xy[1]
LayY == lay.xy[2]

\* x is the floor of (w - tw) / 2
CenteredX == 2 * LayX <= lay.w - lay.tw /\ lay.w - lay.tw <= 2 * LayX + 1

\* y is the floor of (h - th) / 2
CenteredY == 2 * LayY <= lay.h - lay.th /\ lay.h - lay.th <= 2 * LayY + 1

\* C4: for each of the seven named anchors get_watermark_position returns
\* the (x, y) of the anchor table with margin 20 and floor division for the
\* centered coordinates; for any other anchor value it returns the
\* bottom-right result; nothing is clamped, negative coordinates included.
C4_AnchorTable ==
    lay.phase = "result" =>
        CASE lay.position = "top-left" ->
                 LayX = 20 /\ LayY = 20
          [] lay.position = "top-right" ->
                 LayX = lay.w - lay.tw - 20 /\ LayY = 20
          [] lay.position = "top-center" ->
                 CenteredX /\ LayY = 20
          [] lay.position = "bottom-left" ->
                 LayX = 20 /\ LayY = lay.h - lay.th - 20
          [] lay.position = "bottom-right" ->
                 LayX = lay.w - lay.tw - 20 /\ LayY = lay.h - lay.th - 20
          [] lay.position = "bottom-center" ->
                 CenteredX /\ LayY = lay.h - lay.th - 20
          [] lay.position = "center" ->
                 CenteredX /\ CenteredY
          [] OTHER ->
                 LayX = lay.w - lay.tw - 20 /\ LayY = lay.h - lay.th - 20

\* an unrecognized anchor on an image smaller than the margins: the
\* bottom-right result, negative and not clamped
C4_Witness ==
    /\ lay.phase = "result"
    /\ lay.position = "middle"
    /\ lay.w = 1 /\ lay.h = 0 /\ lay.tw = 4 /\ lay.th = 3
    /\ lay.xy = <<-23, -23>>

\* C5: when textW < imgW - 40 and textH < imgH - 40 the text box lies
\* within the margins for every anchor value: 20 <= x, x + textW <= imgW - 20,
\* 20 <= y and y + textH <= imgH - 20.
C5_WithinMargins ==
    (/\ lay.phase = "result"
     /\ lay.tw < lay.w - 40
     /\ lay.th < lay.h - 40)
    => /\ 20 <= LayX
       /\ LayX + lay.tw <= lay.w - 20
       /\ 20 <= LayY
       /\ LayY + lay.th <= lay.h - 20

\* the tightest fit: one pixel of slack, centered
C5_Witness ==
    /\ lay.phase = "result"
    /\ lay.position = "center"
    /\ lay.tw = 4 /\ lay.w = 45 /\ lay.th = 2 /\ lay.h = 43
    /\ lay.xy = <<20, 20>>

(***************************************************************************)
(* Claims about the watermark text (SpecDate)                              *)
(***************************************************************************)
\* a field value that decodes and parses
Usable(bytes) == bytes # Absent /\ Decodable(bytes) /\ Strptime(bytes).ok

Display(bytes) == Strftime(Strptime(bytes))

Today == Strftime(Now(dat.day))

\* C6 as stated: the text is the original-capture field reformatted if that
\* field is present and parseable, else the last-modified field reformatted
\* if that field is present and parseable, else today's date; it is never
\* null.
C6_ThreeStepFallback ==
    dat.phase = "result" =>
        /\ dat.text # None
        /\ dat.text =
             IF dat.exif.load = "ok" /\ Usable(dat.exif.orig)
               THEN Display(dat.exif.orig)
             ELSE IF dat.exif.load = "ok" /\ Usable(dat.exif.dt)
               THEN Display(dat.exif.dt)
             ELSE Today

\* C6 amended: the last-modified field is consulted only when the
\* original-capture field is absent.  A present original-capture field
\* decides alone: its date when it parses, today's date when it does not.
\* get_exif_date returns a display string or null, and the text is never
\* null or empty.
C6_FallbackWhenAbsent ==
    dat.phase = "result" =>
        /\ dat.text # None
        /\ dat.text # <<>>
        /\ dat.ret = None \/ dat.ret = dat.text
        /\ dat.text =
             IF dat.exif.load # "ok" THEN Today
             ELSE IF dat.exif.orig # Absent
               THEN (IF Usable(dat.exif.orig) THEN Display(dat.exif.orig) ELSE Today)
             ELSE IF Usable(dat.exif.dt) THEN Display(dat.exif.dt)
             ELSE Today
        /\ dat.exif.load = "ok" /\ dat.exif.orig = Str2023
             => dat.text = <<"2", "0", "2", "3", CharNian, "0", "5", CharYue,
                             "1", "7", CharRi>>

\* an original-capture field that does not parse next to a valid
\* last-modified field: the text is today's date
C6_Witness ==
    /\ dat.phase = "result"
    /\ dat.exif = [load |-> "ok", orig |-> StrDash, dt |-> Str2021]
    /\ dat.day = 1
    /\ dat.ret = None
    /\ dat.text = <<"2", "0", "2", "4", CharNian, "0", "2", CharYue, "2", "9", CharRi>>

(***************************************************************************)
(* Claims about main (Spec)                                                *)
(***************************************************************************)
Parent(path) == SubSeq(path, 1, Len(path) - 1)

IsOutcome(line) == line.kind \in {"ok", "error"}

\* the success and failure lines printed so far, in order
Outcomes == SelectSeq(stdout, IsOutcome)

Count(kind) == Cardinality({ i \in 1..Len(stdout) : stdout[i].kind = kind })

\* the outcome line o reports the task file f: a failure line carries the
\* path, a success line the file name
Reports(o, f) ==
    IF o.kind = "error" THEN o.path = f ELSE o.path = basename(f)

InLoop == pc \in {"loop", "summarize"} \/ (pc = "done" /\ Count("start") = 1)

SummaryPrinted == pc = "done" /\ Count("all_saved") = 1

\* the source picture is one add_watermark_to_image gets through
Valid(f) == isfile(disk0, f) /\ Lookup(disk0, f).data.fail = "none"

\* the files directly inside the output directory
OutputsOn(d) == { e \in d : e.kind = "file" /\ Parent(e.path) = Components(output_dir) }

\* C1: the loop attempts every file of the task list exactly once, in
\* discovery order, whichever files fail, and the run then reaches Summarize.
C1_EveryFileAttempted ==
    /\ pc # "crashed"
    /\ pc = "loop" => idx <= Len(image_files)
    /\ InLoop =>
         /\ Len(Outcomes) = idx - 1
         /\ \A i \in 1..Len(Outcomes) : Reports(Outcomes[i], image_files[i])
    /\ pc = "summarize" => idx = Len(image_files) + 1
    /\ pc = "done" /\ image_files # <<>> =>
         /\ idx = Len(image_files) + 1
         /\ stdout[Len(stdout)].kind = "all_saved"

\* three files, the first and the second fail, the third is processed and
\* the summary is printed
C1_Witness ==
    /\ SummaryPrinted
    /\ Len(image_files) = 3
    /\ Len(Outcomes) = 3
    /\ Outcomes[1].kind = "error"
    /\ Outcomes[2].kind = "error"
    /\ Outcomes[3].kind = "ok"

\* C2: with n valid and m failing pictures in the task set, a completed run
\* leaves exactly n files in the output directory, one per valid picture and
\* none for a failing one, prints exactly m failure lines, one per failing
\* picture, and every attempted file has exactly one outcome line.
C2_OutputsAndFailures ==
    SummaryPrinted =>
        LET tasks   == 1..Len(image_files)
            valid   == { i \in tasks : Valid(image_files[i]) }
            failing == tasks \ valid
        IN  /\ Cardinality(OutputsOn(disk)) = Cardinality(valid)
            /\ \A i \in valid :
                   \E e \in OutputsOn(disk) :
                       /\ e.path = Append(Components(output_dir), basename(image_files[i]))
                       /\ e.data.pixels = Lookup(disk0, image_files[i]).data.pixels
                       /\ e.data.mark # <<>>
            /\ \A i \in failing :
                   ~\E e \in OutputsOn(disk) :
                       e.path = Append(Components(output_dir), basename(image_files[i]))
            /\ Count("error") = Cardinality(failing)
            /\ \A i \in tasks :
                   /\ Cardinality({ k \in 1..Len(Outcomes) :
                                      Reports(Outcomes[k], image_files[i]) }) = 1
                   /\ \A k \in 1..Len(Outcomes) :
                          Reports(Outcomes[k], image_files[i]) =>
                              (Outcomes[k].kind = "ok" <=> i \in valid)

\* a directory run with two valid pictures and one that cannot be opened
C2_Witness ==
    /\ SummaryPrinted
    /\ run = 1
    /\ ~isfile(disk0, args.image_path)
    /\ Len(image_files) = 3
    /\ Count("ok") = 2
    /\ Count("error") = 1
    /\ Cardinality(OutputsOn(disk)) = 2

\* C3: if the input path does not exist or discovery finds no file, main
\* ends with no file attempted, no directory created and nothing written;
\* in every other case it prepares the output directory and runs the loop.
C3_FatalBeforeEffect ==
    /\ pc \in {"validate", "discover", "empty_check"} =>
         disk = disk0 /\ Outcomes = <<>>
    /\ pc \in {"prepare", "loop", "summarize"} =>
         exists(disk0, args.image_path) /\ image_files # <<>>
    /\ pc = "done" =>
         IF ~exists(disk0, args.image_path) \/ image_files = <<>>
         THEN /\ disk = disk0
              /\ Outcomes = <<>>
              /\ Len(stdout) = 1
              /\ stdout[1].kind =
                   IF exists(disk0, args.image_path) THEN "no_files" ELSE "not_found"
         ELSE /\ \E e \in disk : e.path = Components(output_dir) /\ e.kind = "dir"
              /\ Len(Outcomes) = Len(image_files)
              /\ Count("not_found") = 0
              /\ Count("no_files") = 0

\* a directory that holds files, none of them with a matched extension
C3_Witness ==
    /\ pc = "done"
    /\ run = 1
    /\ exists(disk0, args.image_path)
    /\ image_files = <<>>
    /\ stdout = <<Line("no_files", <<"d", "/">>, 0, <<>>)>>
    /\ disk = disk0

\* C7: every path a run writes is <outputDir>/<filename>, with outputDir =
\* <inputDir>/<baseName(inputDir)>_watermark a directory inside the input
\* directory and distinct from it; no written path is the path of a
\* discovered source file, and no source file is changed or removed.
C7_SourcesUntouched ==
    /\ pc \in {"validate", "discover", "empty_check", "prepare"} => disk = disk0
    /\ InLoop =>
         LET out == Components(output_dir)
         IN  /\ output_dir = join(input_dir, basename(input_dir) \o WatermarkSuffix)
             /\ Parent(out) = Components(input_dir)
             /\ out # Components(input_dir)
             /\ \A e \in disk \ disk0 :
                    \/ e = Dir(out)
                    \/ /\ e.kind = "file"
                       /\ \E i \in 1..(idx - 1) :
                              e.path = Append(out, basename(image_files[i]))
             /\ \A e \in disk0 \ disk : e.kind = "file" /\ Parent(e.path) = out
             /\ \A i \in 1..Len(image_files) :
                    /\ Parent(Components(image_files[i])) # out
                    /\ \A e \in disk0 :
                           e.path = Components(image_files[i]) => e \in disk

\* a single file given without a directory part: its output is written to
\* ./._watermark/f.jpg and f.jpg itself is as it was
C7_Witness ==
    /\ SummaryPrinted
    /\ args.image_path = NameF
    /\ input_dir = <<".">>
    /\ \E e \in disk \ disk0 :
           e.path = << <<".">> \o WatermarkSuffix, NameF >> /\ e.data.mark # <<>>
    /\ \E e \in disk0 : e.path = <<NameF>> /\ e \in disk

\* str.lower() on one character
LowerChar(c) ==
    CASE c = "J" -> "j" [] c = "P" -> "p" [] c = "G" -> "g" [] c = "E" -> "e"
      [] c = "N" -> "n" [] c = "T" -> "t" [] c = "I" -> "i" [] c = "F" -> "f"
      [] c = "B" -> "b" [] c = "M" -> "m" [] c = "W" -> "w"
      [] OTHER -> c

Lower(s) == [i \in 1..Len(s) |-> LowerChar(s[i])]

\* the name ends, whatever the case of its letters, with a dot and one of
\* the six extensions
HasImageExtension(name) ==
    \E k \in 1..Len(image_extensions) :
        EndsWith(Lower(name), Tail(image_extensions[k]))

\* the entries directly inside the input directory
DirectEntries == { e \in disk : Parent(e.path) = Components(input_dir) }

TaskPaths == { Components(image_files[i]) : i \in 1..Len(image_files) }

\* C8: in directory mode the task set is exactly the entries directly
\* inside the input directory whose extension is, in any letter case, one of
\* jpg, jpeg, png, tiff, bmp, webp: every such entry is in the task set, no
\* other entry is, and no entry is in it twice.
C8_CaseInsensitiveDiscovery ==
    (pc = "empty_check" /\ ~isfile(disk, args.image_path)) =>
        /\ \A e \in DirectEntries :
               HasImageExtension(e.path[Len(e.path)]) => e.path \in TaskPaths
        /\ \A p \in TaskPaths :
               /\ \E e \in DirectEntries : e.path = p
               /\ HasImageExtension(p[Len(p)])
        /\ Cardinality(TaskPaths) = Len(image_files)

\* C9 as stated: a later run on the same command line discovers the task
\* set of the first run and leaves the output directory with the files and
\* the contents the first run left.
C9_Idempotent ==
    (SummaryPrinted /\ run >= 2 /\ firstRun.done) =>
        /\ Range(image_files) = firstRun.tasks
        /\ OutputsOn(disk) = OutputsOn(firstRun.disk)

\* the picture the output entry e was made from has no usable date in its
\* metadata, so that its text is the date of the day it was processed
StampedWithToday(e) ==
    \E i \in 1..Len(image_files) :
        /\ basename(image_files[i]) = e.path[Len(e.path)]
        /\ Falsy(get_exif_date(Lookup(disk0, image_files[i]).data.exif))

\* C9 amended: a later run discovers the task set of the first run and
\* leaves the same set of output files, one file per path; an output whose
\* text comes from the metadata has the content the first run gave it, and
\* an output stamped with the current date differs from the first run's at
\* most in that date, which is the day of one of the runs.
C9_IdempotentUpToToday ==
    (SummaryPrinted /\ run >= 2 /\ firstRun.done) =>
        /\ Range(image_files) = firstRun.tasks
        /\ { e.path : e \in OutputsOn(disk) } = { e.path : e \in OutputsOn(firstRun.disk) }
        /\ \A e1, e2 \in disk : e1.path = e2.path => e1 = e2
        /\ \A e \in OutputsOn(disk) :
               \E f \in OutputsOn(firstRun.disk) :
                   /\ f.path = e.path
                   /\ IF StampedWithToday(e)
                      THEN /\ e.data = [f.data EXCEPT !.mark[1] = e.data.mark[1]]
                           /\ \E day \in 0..clock : e.data.mark[1] = Strftime(Now(day))
                      ELSE e = f

\* the second run takes place a day after the first: the output of a
\* picture without metadata date changes, the output of one with it does not
C9_Witness ==
    /\ SummaryPrinted
    /\ run = 2
    /\ firstRun.done
    /\ \E e \in OutputsOn(disk) :
           /\ StampedWithToday(e)
           /\ e \notin firstRun.disk
           /\ e.data.mark[1] = Strftime(Now(1))
    /\ \E e \in OutputsOn(disk) : ~StampedWithToday(e) /\ e \in firstRun.disk

\* the number of pictures the run reports
ReportedCount ==
    LET k == CHOOSE k \in 1..Len(stdout) : stdout[k].kind = "start"
    IN  stdout[k].n

\* C10: the count the run reports is the number of files processed into the
\* output directory, failed files excluded, and the summary does not say
\* that a skipped file was saved.
C10_CountExcludesFailures ==
    SummaryPrinted =>
        /\ ReportedCount = Count("ok")
        /\ Count("error") > 0 => Count("all_saved") = 0

====
